---- MODULE Spec2Model ----
(***************************************************************************)
(* Model of the data-access layer of the stock-market dashboard:           *)
(*   - ApiService.request / refreshToken / login / register  (App.tsx)     *)
(*   - App.checkAuth / handleLogin / handleLogout            (App.tsx)     *)
(*   - StockList polling effect / loadQuotes                 (App.tsx)     *)
(*                                                                         *)
(* JavaScript runs on one event loop.  A step of the model is one task     *)
(* together with the microtasks it triggers: the code between two awaited  *)
(* network operations of one caller is atomic.  `await response.json()`    *)
(* touches no shared state before or after it, so it is folded into the    *)
(* response step; a rejected json() is the transport-failure outcome.      *)
(*                                                                         *)
(* Tokens are numbers: 0 is "no item in localStorage" (getItem -> null),   *)
(* g > 0 is the g-th pair issued by the server (access g, refresh g).      *)
(***************************************************************************)
EXTENDS Integers, FiniteSets, Sequences, TLC

\* ------------------------------------------------------------------ bounds
NCalls == 3          \* request() invocations by the views in one run
MaxTok == 3          \* token pairs the server issues in one run
MaxInFlight == 2     \* request() invocations pending at the same time
NSym == 2            \* symbols the server lists
MaxTicks == 2        \* loadQuotes() calls in one run
MaxStocks == 3       \* length of the stocks array of one loadQuotes() call
MaxQty == 2          \* largest quantity typed into the trading modal
MaxTrades == 2       \* trade requests of one trading modal

Calls == 0..NCalls    \* call 0 is the getProfile() of App.checkAuth
Tokens == 0..MaxTok

Kinds == {"api", "login", "register", "profile"}
FetchOutcomes == {"ok", "401", "err", "net"}
RefreshOutcomes == {"ok", "rejected", "net"}

VARIABLES
  localStorage,   \* [access_token, refresh_token]
  calls,          \* one record per request() call of the views
  nextTok,        \* next pair the server issues
  user,           \* App state `user` (FALSE = null)
  loading,        \* App state `loading`
  refreshFailed   \* history: a refresh failed and no login/registration stored a pair since

authVars == <<localStorage, calls, nextTok, user, loading, refreshFailed>>

VARIABLES
  mounted,        \* the StockList component is mounted
  stocks,         \* StockList state `stocks`: the watchset
  quotes,         \* StockList state `quotes`: the published map symbol -> quote
  interval,       \* the setInterval timer of the polling effect is armed
  batches,        \* the loadQuotes() calls
  last            \* history: the loadQuotes() call that completed last, and the
                  \* symbols whose fetch failed in it

pollVars == <<mounted, stocks, quotes, interval, batches, last>>

VARIABLES
  wire            \* the last call handed to fetch, or the last error thrown, by a
                  \* request builder, with the inputs it was built from

wireVars == <<wire>>

VARIABLES
  merge           \* the last Promise.all of a loadQuotes() call taken alone: its
                  \* stocks, outcomes and completion order, and the map it published

mergeVars == <<merge>>

VARIABLES
  modal           \* TradingModal: its state (quote, tradeType, quantity, loading,
                  \* error), whether a handleTrade() is awaiting its request (pc),
                  \* and history: requests sent, how the last one ended, and the
                  \* callbacks invoked so far (log)

tradeVars == <<modal>>

vars == <<authVars, pollVars, wireVars, mergeVars, tradeVars>>

\* ------------------------------------------------------- credential store
SetTokensRefreshOnly(ls, g) == [ls EXCEPT !.refresh_token = g]

SetTokensAccessOnly(ls, g) == [ls EXCEPT !.access_token = g]

\* localStorage.setItem('access_token', ..); localStorage.setItem('refresh_token', ..)
SetTokens(ls, g) == [access_token |-> g, refresh_token |-> g]

\* localStorage.removeItem('access_token'); localStorage.removeItem('refresh_token')
RemoveTokens(ls) == [access_token |-> 0, refresh_token |-> 0]

\* ------------------------------------------------------------ request()
\* pc, kind, token: where the call is, which operation it is, the `token` of
\* line 74 (locals: dropped when the call returns).  History of the call:
\* retry (the call is in, or went through, the recursive invocation of line 95),
\* firstToken (the token of the first invocation), posted1 (the first invocation
\* issued POST /auth/refresh), afterFail (refreshFailed when it started), resp
\* (how the call's last fetch of lines 82-85 settled), outcome.
IdleCall == [pc |-> "idle", kind |-> "none", token |-> 0, retry |-> FALSE,
             firstToken |-> 0, posted1 |-> FALSE,
             afterFail |-> FALSE, resp |-> "none", outcome |-> "none"]

RetryTokenStale(ls, old) == old

\* line 74, executed again by the recursive call of line 95
RetryToken(ls, old) == ls.access_token

InFlight == {c \in Calls : calls[c].pc \in {"fetch", "refresh"}}

\* the effect of a finished request() on its caller (login / register /
\* checkAuth / any other view); cl is the call's record, ls the store and rf
\* the history flag as request() leaves them
Finish(c, cl, out, ls, rf) ==
  LET k == cl.kind IN
  /\ calls' = [calls EXCEPT ![c] =
       [cl EXCEPT !.pc = "done", !.kind = "none", !.token = 0, !.afterFail = FALSE,
                  !.outcome = out]]
  /\ IF k \in {"login", "register"} /\ out = "ok"
       THEN \* login/register lines 141-142, 153-154; AuthForm line 230
            /\ nextTok <= MaxTok
            /\ localStorage' = SetTokens(ls, nextTok)
            /\ nextTok' = nextTok + 1
            /\ user' = TRUE
            /\ refreshFailed' = FALSE
            /\ UNCHANGED loading
       ELSE IF k = "profile"
         THEN \* checkAuth lines 837-846
              /\ localStorage' = IF out = "ok" THEN ls ELSE RemoveTokens(ls)
              /\ user' = IF out = "ok" THEN TRUE ELSE user
              /\ loading' = FALSE
              /\ refreshFailed' = rf
              /\ UNCHANGED nextTok
         ELSE /\ localStorage' = ls
              /\ refreshFailed' = rf
              /\ UNCHANGED <<nextTok, user, loading>>

\* a view calls api.<operation>() -> request(): lines 73-85
request(c, k) ==
  /\ c # 0
  /\ calls[c].pc = "idle"
  /\ \A d \in Calls \ {0} : d < c => calls[d].pc # "idle"
  /\ Cardinality(InFlight) < MaxInFlight
  /\ CASE k = "profile" -> FALSE
       [] k \in {"login", "register"} -> ~loading /\ ~user
       [] OTHER -> ~loading /\ user
  /\ calls' = [calls EXCEPT ![c] =
        [IdleCall EXCEPT !.pc = "fetch", !.kind = k,
                         !.token = localStorage.access_token,
                         !.firstToken = localStorage.access_token,
                         !.afterFail = refreshFailed]]
  /\ UNCHANGED <<localStorage, nextTok, user, loading, refreshFailed, pollVars, wireVars, mergeVars, tradeVars>>

\* App.checkAuth, lines 833-847, up to its first await
checkAuth ==
  /\ loading
  /\ calls[0].pc = "idle"
  /\ IF localStorage.access_token # 0
       THEN /\ calls' = [calls EXCEPT ![0] =
                 [IdleCall EXCEPT !.pc = "fetch", !.kind = "profile",
                                  !.token = localStorage.access_token,
                                  !.firstToken = localStorage.access_token,
                                  !.afterFail = refreshFailed]]
            /\ UNCHANGED loading
       ELSE /\ loading' = FALSE
            /\ UNCHANGED calls
  /\ UNCHANGED <<localStorage, nextTok, user, refreshFailed, pollVars, wireVars, mergeVars, tradeVars>>

RouteRefreshOnNet(r, token, rt) ==
  CASE r = "ok" -> "ok"
    [] r \in {"net", "401"} /\ token # 0 -> IF rt = 0 THEN "AuthExpired" ELSE "refresh"
    [] r = "net" -> "NetworkError"
    [] OTHER -> "HttpError"

RouteNoTokenCheck(r, token, rt) ==
  CASE r = "ok" -> "ok"
    [] r = "net" -> "NetworkError"
    [] r = "401" -> IF rt = 0 THEN "AuthExpired" ELSE "refresh"
    [] OTHER -> "HttpError"

RouteNoRefreshTokenCheck(r, token, rt) ==
  CASE r = "ok" -> "ok"
    [] r = "net" -> "NetworkError"
    [] r = "401" /\ token # 0 -> "refresh"
    [] OTHER -> "HttpError"

\* what request() does with a settled fetch, lines 81-105, and refreshToken()
\* with the refresh token it reads, lines 110-111: return the data ("ok"),
\* rethrow the rejection of fetch ("NetworkError"), throw Error(data.message)
\* ("HttpError"; "AuthExpired" when refreshToken() returned false), or
\* issue POST /auth/refresh ("refresh")
Route(r, token, rt) ==
  CASE r = "ok" -> "ok"
    [] r = "net" -> "NetworkError"
    [] r = "401" /\ token # 0 -> IF rt = 0 THEN "AuthExpired" ELSE "refresh"
    [] OTHER -> "HttpError"

\* the fetch of lines 82-85 settles; lines 87-105 and, on a 401 with a token,
\* refreshToken() lines 108-117 up to its fetch
requestFetched(c, r) ==
  /\ calls[c].pc = "fetch"
  /\ UNCHANGED <<pollVars, wireVars, mergeVars, tradeVars>>
  /\ LET cl == [calls[c] EXCEPT !.resp = r]
         to == Route(r, cl.token, localStorage.refresh_token)
     IN
     IF to = "refresh"
       THEN /\ calls' = [calls EXCEPT ![c] =
                 [cl EXCEPT !.pc = "refresh", !.posted1 = @ \/ ~cl.retry]]
            /\ UNCHANGED <<localStorage, nextTok, user, loading, refreshFailed>>
       ELSE \* line 111 returns false before anything is removed
            Finish(c, cl, to, localStorage, refreshFailed)

\* the fetch of POST /auth/refresh (line 113) settles; lines 119-133, then
\* lines 93-98 of the waiting request() and lines 73-85 of its retry
refreshTokenFetched(c, r) ==
  /\ calls[c].pc = "refresh"
  /\ UNCHANGED <<pollVars, wireVars, mergeVars, tradeVars>>
  /\ IF r = "ok"
       THEN /\ nextTok <= MaxTok
            /\ localStorage' = SetTokens(localStorage, nextTok)
            /\ nextTok' = nextTok + 1
            /\ calls' = [calls EXCEPT ![c].pc = "fetch",
                                      ![c].retry = TRUE,
                                      ![c].token = RetryToken(localStorage', @)]
            /\ UNCHANGED <<user, loading, refreshFailed>>
       ELSE Finish(c, calls[c], "AuthExpired", RemoveTokens(localStorage), TRUE)

\* the pair numbers the store and the calls still hold
Held ==
  {localStorage.access_token, localStorage.refresh_token}
    \cup {calls[d].token : d \in Calls} \cup {calls[d].firstToken : d \in Calls}

\* refreshTokenFetched(c, "ok") once the server has issued MaxTok pairs: the
\* new pair takes the least number that nothing holds any more, so that a
\* server that goes on issuing pairs stays within Tokens
refreshTokenFetchedAgain(c) ==
  /\ calls[c].pc = "refresh"
  /\ nextTok > MaxTok
  /\ \E g \in Tokens \ Held :
        /\ \A h \in Tokens \ Held : g <= h
        /\ localStorage' = SetTokens(localStorage, g)
        /\ calls' = [calls EXCEPT ![c].pc = "fetch",
                                  ![c].retry = TRUE,
                                  ![c].token = RetryToken(localStorage', @)]
  /\ UNCHANGED <<nextTok, user, loading, refreshFailed, pollVars, wireVars, mergeVars, tradeVars>>

\* App.handleLogout, lines 853-857 (the logout button exists while a user is shown)
handleLogout ==
  /\ ~loading /\ user
  /\ localStorage' = RemoveTokens(localStorage)
  /\ user' = FALSE
  /\ UNCHANGED <<calls, nextTok, loading, refreshFailed, pollVars, wireVars, mergeVars, tradeVars>>

\* state after construction: App mounted, localStorage as an earlier session left it
InitAuth ==
  /\ localStorage \in {[access_token |-> 0, refresh_token |-> 0],
                       [access_token |-> 1, refresh_token |-> 1]}
  /\ calls = [c \in Calls |-> IdleCall]
  /\ nextTok = 2
  /\ user = FALSE
  /\ loading = TRUE
  /\ refreshFailed = FALSE

NextAuth ==
  \/ checkAuth
  \/ \E c \in Calls, k \in Kinds : request(c, k)
  \/ \E c \in Calls, r \in FetchOutcomes : requestFetched(c, r)
  \/ \E c \in Calls, r \in RefreshOutcomes : refreshTokenFetched(c, r)
  \/ handleLogout

\* ------------------------------------------------------------ StockList
\* A quote is the number of the loadQuotes() call that fetched it; a result is
\* -1 while its getStockQuote() is pending, 0 for the null of a failed fetch.
\* getStockQuote() is taken by its outcome alone: it resolves or it rejects.
Symbols == 1..NSym
Ticks == 1..MaxTicks

\* stopped (history): the cleanup of the effect run that started the call has run
IdleBatch == [pc |-> "idle", stopped |-> FALSE, res |-> <<>>]
NoBatch == [id |-> 0, failed |-> {}]

\* loadQuotes lines 382-390: the entries of the results that are not null become
\* the new map; nothing of the old map `old` is kept
NewQuotes(old, res) == [s \in {x \in DOMAIN res : res[x] > 0} |-> res[s]]

\* the cleanup of the polling effect, line 356, as the calls started so far see it
Cleanup(bs) == [b \in Ticks |-> IF bs[b].pc = "pending" THEN [bs[b] EXCEPT !.stopped = TRUE] ELSE bs[b]]

StartFetchesInTurn(S) == [s \in {x \in S : \A y \in S : x <= y} |-> -1]

\* lines 372-379, stocks.map(async ...): every callback runs up to its await,
\* that is up to the fetch() of its getStockQuote(), before map returns
StartFetches(S) == [s \in S |-> -1]

QuoteResultRethrow(b, ok) == IF ok THEN b ELSE -2

\* lines 373-378: the result of one callback; the catch turns a rejected
\* getStockQuote() into null.  -2 would be a rejected callback.
QuoteResult(b, ok) == IF ok THEN b ELSE 0

clearIntervalNoop(i) == i

\* line 356: clearInterval(interval); the timer (TRUE while set) is off afterwards
clearInterval(i) == FALSE

\* loadQuotes lines 372-381: one getStockQuote() per stock of the closure's
\* `stocks`, all started before the first await
loadQuotes(bs, b, S) ==
  /\ bs[b].pc = "idle"
  /\ \A d \in Ticks : d < b => bs[d].pc # "idle"
  /\ batches' = [bs EXCEPT ![b] = [pc |-> "pending", stopped |-> FALSE, res |-> StartFetches(S)]]

\* loadStocks line 363, setStocks(items), and the polling effect it re-runs,
\* lines 352-358: the cleanup of the previous run, then loadQuotes() and a new timer
setStocks(S, b) ==
  /\ mounted
  /\ stocks' = S
  /\ IF S # {}
       THEN /\ loadQuotes(Cleanup(batches), b, S)
            /\ interval' = TRUE
       ELSE /\ b = 1
            /\ interval' = clearInterval(interval)
            /\ batches' = Cleanup(batches)
  /\ UNCHANGED <<mounted, quotes, last, authVars, wireVars, mergeVars, tradeVars>>

\* the timer of line 355 fires: loadQuotes() of the render the effect ran in
tick(b) ==
  /\ interval
  /\ loadQuotes(batches, b, stocks)
  /\ UNCHANGED <<mounted, stocks, quotes, interval, last, authVars, wireVars, mergeVars, tradeVars>>

\* one getStockQuote() of a loadQuotes() call settles (lines 373-378); with the
\* last one Promise.all resolves and lines 381-390 run.  setQuotes of an
\* unmounted component changes nothing.
getStockQuoteSettled(b, s, ok) ==
  /\ batches[b].pc = "pending"
  /\ s \in DOMAIN batches[b].res
  /\ batches[b].res[s] = -1
  /\ LET res == [batches[b].res EXCEPT ![s] = QuoteResult(b, ok)] IN
     IF res[s] = -2
       THEN \* Promise.all (line 381) rejects with its first rejected promise
            /\ batches' = [batches EXCEPT ![b] = [pc |-> "rejected", stopped |-> FALSE, res |-> <<>>]]
            /\ UNCHANGED <<quotes, last>>
     ELSE IF \E x \in DOMAIN res : res[x] = -1
       THEN /\ batches' = [batches EXCEPT ![b].res = res]
            /\ UNCHANGED <<quotes, last>>
       ELSE /\ batches' = [batches EXCEPT ![b] = [pc |-> "done", stopped |-> FALSE, res |-> <<>>]]
            /\ last' = [id |-> b, failed |-> {x \in DOMAIN res : res[x] = 0}]
            /\ quotes' = IF mounted THEN NewQuotes(quotes, res) ELSE quotes
  /\ UNCHANGED <<mounted, stocks, interval, authVars, wireVars, mergeVars, tradeVars>>

\* StockList unmounts: the cleanup of line 356
unmount ==
  /\ mounted
  /\ mounted' = FALSE
  /\ interval' = clearInterval(interval)
  /\ batches' = Cleanup(batches)
  /\ UNCHANGED <<stocks, quotes, last, authVars, wireVars, mergeVars, tradeVars>>

InitPoll ==
  /\ mounted = TRUE
  /\ stocks = {}
  /\ quotes = <<>>
  /\ interval = FALSE
  /\ batches = [b \in Ticks |-> IdleBatch]
  /\ last = NoBatch

NextPoll ==
  \/ \E S \in SUBSET Symbols, b \in Ticks : setStocks(S, b)
  \/ \E b \in Ticks : tick(b)
  \/ \E b \in Ticks, s \in Symbols, ok \in BOOLEAN : getStockQuoteSettled(b, s, ok)
  \/ unmount

\* ------------------------------------------------- what goes on the wire
\* Objects are functions on strings; {...a, ...b} is Merge(a, b).
HeaderNames == {"Content-Type", "Authorization", "X-Trace"}
CallerHeaders == UNION {[D -> {"caller"}] : D \in SUBSET HeaderNames}
Methods == {"GET", "POST"}
Options ==
  {<<>>} \cup {("method" :> m) : m \in Methods}
         \cup {("headers" :> h) : h \in CallerHeaders}
         \cup {("method" :> m) @@ ("headers" :> h) : m \in Methods, h \in CallerHeaders}
Statuses == {400, 401, 403, 404, 500}
Messages == {"", "Insufficient funds"}

NoWire == [op |-> "none"]

Merge(a, b) == [k \in DOMAIN a \cup DOMAIN b |-> IF k \in DOMAIN b THEN b[k] ELSE a[k]]

Bearer(token) == <<"Bearer", token>>

\* ...options.headers: an absent property spreads to nothing
OptionHeaders(options) == IF "headers" \in DOMAIN options THEN options["headers"] ELSE <<>>

\* services/api.ts getAuthHeader, lines 6-9; App.tsx line 77
getAuthHeader(token) == IF token # 0 THEN ("Authorization" :> Bearer(token)) ELSE <<>>

\* App.tsx lines 75-79
Headers(token, options) ==
  Merge(Merge(("Content-Type" :> "application/json"), getAuthHeader(token)),
        OptionHeaders(options))

\* App.tsx lines 82-85: fetch(url, {...options, headers})
RequestInitApp(token, options) == Merge(options, ("headers" :> Headers(token, options)))

\* services/api.ts lines 16-23: {headers: {...}, ...options}
RequestInitApi(token, options) == Merge(("headers" :> Headers(token, options)), options)

RefreshInitViaRequest(ls) ==
  [method |-> "POST",
   headers |-> Merge(("Content-Type" :> "application/json"), getAuthHeader(ls.access_token)),
   body |-> [refresh_token |-> ls.refresh_token]]

\* App.tsx lines 113-117
RefreshInit(ls) ==
  [method |-> "POST",
   headers |-> ("Content-Type" :> "application/json"),
   body |-> [refresh_token |-> ls.refresh_token]]

\* App.tsx line 98, services/api.ts line 30: new Error(data.message || 'Request failed')
RequestError(status, message) ==
  [message |-> IF message = "" THEN "Request failed" ELSE message]

\* App.tsx request() builds and sends a call
sendApp(token, options) ==
  /\ wire' = [op |-> "request", by |-> "App", token |-> token, options |-> options,
              out |-> RequestInitApp(token, options)]
  /\ UNCHANGED <<authVars, pollVars, mergeVars, tradeVars>>

\* services/api.ts request() builds and sends a call
sendApi(token, options) ==
  /\ wire' = [op |-> "request", by |-> "api", token |-> token, options |-> options,
              out |-> RequestInitApi(token, options)]
  /\ UNCHANGED <<authVars, pollVars, mergeVars, tradeVars>>

\* refreshToken() builds and sends POST /auth/refresh, lines 110-117
sendRefresh(ls) ==
  /\ ls.refresh_token # 0
  /\ wire' = [op |-> "refresh", ls |-> ls, out |-> RefreshInit(ls)]
  /\ UNCHANGED <<authVars, pollVars, mergeVars, tradeVars>>

\* request() throws for a non-2xx response it does not retry
throwError(status, message) ==
  /\ wire' = [op |-> "error", status |-> status, message |-> message,
              out |-> RequestError(status, message)]
  /\ UNCHANGED <<authVars, pollVars, mergeVars, tradeVars>>

InitWire == wire = NoWire

NextWire ==
  \/ \E t \in Tokens, o \in Options : sendApp(t, o)
  \/ \E t \in Tokens, o \in Options : sendApi(t, o)
  \/ \E a \in Tokens, r \in Tokens : sendRefresh([access_token |-> a, refresh_token |-> r])
  \/ \E st \in Statuses, m \in Messages : throwError(st, m)

\* ------------------------------------------------- Promise.all in loadQuotes
\* `stocks` as the array it is (a symbol may occur twice); the fetch of index i
\* answers with quote i.  order[k] is the index whose fetch settles k-th.
StockArrays == UNION {[1..n -> Symbols] : n \in 1..MaxStocks}
Orders(n) == {o \in [1..n -> 1..n] : \A i \in 1..n : \E k \in 1..n : o[k] = i}
InOrder(n) == [k \in 1..n |-> k]

NoMerge == [op |-> "none"]
null == [symbol |-> 0, quote |-> 0]

\* lines 373-378 for the stock at index i
Callback(st, ok, i) == IF ok[i] THEN [symbol |-> st[i], quote |-> i] ELSE null

PromiseAllAsSettled(st, ok, order) == [k \in 1..Len(st) |-> Callback(st, ok, order[k])]

\* line 381: Promise.all resolves with the results at the positions of their
\* promises, whatever the order they settled in
RECURSIVE PromiseAllFrom(_, _, _, _, _)
PromiseAllFrom(st, ok, order, k, results) ==
  IF k > Len(order) THEN results
  ELSE PromiseAllFrom(st, ok, order, k + 1,
                      [results EXCEPT ![order[k]] = Callback(st, ok, order[k])])

PromiseAll(st, ok, order) == PromiseAllFrom(st, ok, order, 1, [i \in 1..Len(st) |-> null])

\* lines 382-388: results.forEach fills newQuotes, a later result replacing an
\* earlier one of the same symbol
RECURSIVE ForEachResult(_, _, _)
ForEachResult(results, i, newQuotes) ==
  IF i > Len(results) THEN newQuotes
  ELSE ForEachResult(results, i + 1,
         IF results[i] # null
           THEN (results[i].symbol :> results[i].quote) @@ newQuotes
           ELSE newQuotes)

\* lines 381-390 of one loadQuotes() call whose fetches settle in `order`
promiseAllSettled(st, ok, order) ==
  /\ merge = NoMerge
  /\ merge' = [op |-> "setQuotes", stocks |-> st, ok |-> ok, order |-> order,
               out |-> ForEachResult(PromiseAll(st, ok, order), 1, <<>>)]
  /\ UNCHANGED <<authVars, pollVars, wireVars, tradeVars>>

InitMerge == merge = NoMerge

NextMerge ==
  \E st \in StockArrays : \E ok \in [1..Len(st) -> BOOLEAN], order \in Orders(Len(st)) :
     promiseAllSettled(st, ok, order)

\* ------------------------------------------------------------ TradingModal
\* quote: 0 is null, 1 a quote.  Typed: what parseInt() makes of the input
\* field, 0 standing for NaN as well.
Quotes == 0..1
TradeTypes == {"buy", "sell"}
Typed == -1..MaxQty
TradeErrors == {RequestError(500, m).message : m \in Messages} \cup {"Failed to fetch"}

\* line 732: Math.max(1, parseInt(e.target.value) || 1)
ParseQuantity(v) == IF (IF v = 0 THEN 1 ELSE v) > 1 THEN v ELSE 1

OnSuccessCloseFirst(log) == log \o <<"onClose", "onComplete">>

\* lines 666-667: onComplete(); onClose();
OnSuccess(log) == log \o <<"onComplete", "onClose">>

\* lines 646-649: a loadQuote() of the polling effect got its response
setQuote(q) ==
  /\ modal' = [modal EXCEPT !.quote = q]
  /\ UNCHANGED <<authVars, pollVars, wireVars, mergeVars>>

\* lines 708, 716
setTradeType(t) ==
  /\ modal' = [modal EXCEPT !.tradeType = t]
  /\ UNCHANGED <<authVars, pollVars, wireVars, mergeVars>>

\* line 732
setQuantity(v) ==
  /\ modal' = [modal EXCEPT !.quantity = ParseQuantity(v)]
  /\ UNCHANGED <<authVars, pollVars, wireVars, mergeVars>>

\* a click on the trade button, enabled by line 753: handleTrade lines 655-664,
\* up to its await
handleTrade ==
  /\ ~modal.loading /\ modal.quote # 0
  /\ modal.sent < MaxTrades
  /\ IF modal.quote = 0 \/ modal.quantity <= 0
       THEN UNCHANGED modal
       ELSE modal' = [modal EXCEPT !.loading = TRUE, !.error = "", !.pc = "pending",
                                   !.sent = @ + 1]
  /\ UNCHANGED <<authVars, pollVars, wireVars, mergeVars>>

\* buyStock()/sellStock() returned: lines 666-667, 670-672
tradeSucceeded ==
  /\ modal.pc = "pending"
  /\ modal' = [modal EXCEPT !.pc = "idle", !.outcome = "ok", !.log = OnSuccess(@),
                            !.loading = FALSE]
  /\ UNCHANGED <<authVars, pollVars, wireVars, mergeVars>>

\* buyStock()/sellStock() threw: lines 668-672
tradeFailed(m) ==
  /\ modal.pc = "pending"
  /\ modal' = [modal EXCEPT !.pc = "idle", !.outcome = "failed", !.error = m,
                            !.loading = FALSE]
  /\ UNCHANGED <<authVars, pollVars, wireVars, mergeVars>>

InitModal ==
  modal = [quote |-> 0, tradeType |-> "buy", quantity |-> 1, loading |-> FALSE,
           error |-> "", pc |-> "idle", sent |-> 0, outcome |-> "none", log |-> <<>>]

NextModal ==
  \/ \E q \in Quotes : setQuote(q)
  \/ \E t \in TradeTypes : setTradeType(t)
  \/ \E v \in Typed : setQuantity(v)
  \/ handleTrade
  \/ tradeSucceeded
  \/ \E m \in TradeErrors : tradeFailed(m)

Init == InitAuth /\ InitPoll /\ InitWire /\ InitMerge /\ InitModal

Next == NextAuth

Spec == Init /\ [][Next]_vars

\* the poller alone, beside a pipeline that stays as a session without stored tokens starts
InitPollOnly == Init /\ localStorage.access_token = 0

SpecPoll == InitPollOnly /\ [][NextPoll]_vars

\* Spec with what the runtime guarantees: the effect on mount runs, and every
\* fetch settles (resolves or rejects).  Nothing obliges the user to act.
SpecLive ==
  /\ Init /\ [][Next]_vars
  /\ WF_vars(checkAuth)
  /\ WF_vars(\E c \in Calls, r \in FetchOutcomes : requestFetched(c, r))
  /\ WF_vars(\E c \in Calls, r \in RefreshOutcomes : refreshTokenFetched(c, r))

\* SpecLive with a server that never runs out of pairs
NextStartup ==
  \/ NextAuth
  \/ \E c \in Calls : refreshTokenFetchedAgain(c)

SpecStartup ==
  /\ Init /\ [][NextStartup]_vars
  /\ WF_vars(checkAuth)
  /\ WF_vars(\E c \in Calls, r \in FetchOutcomes : requestFetched(c, r))
  /\ WF_vars(\/ \E c \in Calls, r \in RefreshOutcomes : refreshTokenFetched(c, r)
             \/ \E c \in Calls : refreshTokenFetchedAgain(c))

\* TradingModal alone
SpecTrade == InitPollOnly /\ [][NextModal]_vars

\* Promise.all and the forEach of loadQuotes alone
SpecMerge == InitPollOnly /\ [][NextMerge]_vars

\* the request builders alone
SpecWire == InitPollOnly /\ [][NextWire]_vars

\* ================================================== request pipeline claims

\* the calls whose first invocation, sent with token t, got a 401 and issued
\* POST /auth/refresh.  A second one can only have started while the first was
\* still pending: a finished refresh leaves another pair, or none, in the store.
Episode(t) == {c \in Calls : calls[c].posted1 /\ calls[c].firstToken = t}

\* C1: the calls that are pending together and get a 401 for the same expired
\* access token issue one POST /auth/refresh in total.
C1_SingleFlight == \A t \in 1..(MaxTok + 1) : Cardinality(Episode(t)) <= 1

\* C2: the calls that got a 401 for the same expired access token all end the
\* same way: none succeeds after its refresh while another fails with
\* AuthExpired because its refresh failed.
C2_OutcomeAgreement ==
  \A t \in 1..(MaxTok + 1) : \A c, d \in Episode(t) :
     ~ /\ calls[c].pc = "done" /\ calls[c].retry /\ calls[c].outcome = "ok"
       /\ calls[d].pc = "done" /\ ~calls[d].retry /\ calls[d].outcome = "AuthExpired"

\* C3: a retried request that gets a 401 again attempts no second refresh.
C3_RetryAtMostOnce == \A c \in Calls : ~(calls[c].retry /\ calls[c].pc = "refresh")

\* C4: when a refresh succeeds the store holds the pair the refresh endpoint
\* returned (nextTok before the step) and the retry is sent with that access
\* token: not the expired one, not none.
C4_RetryUsesNewPair ==
  [][\A c \in Calls :
       (calls[c].pc = "refresh" /\ calls'[c].pc = "fetch") =>
          /\ localStorage' = [access_token |-> nextTok, refresh_token |-> nextTok]
          /\ calls'[c].token = nextTok
          /\ calls'[c].token # calls[c].token
          /\ calls'[c].token # 0]_vars

\* a call is retrying with the pair its refresh stored while another call,
\* sent with an older token, is still pending
C4_Witness ==
  \E c, d \in Calls :
     /\ c # d
     /\ calls[c].pc = "fetch" /\ calls[c].retry
     /\ calls[c].token = localStorage.access_token
     /\ calls[d].pc \in {"fetch", "refresh"} /\ calls[d].token # calls[c].token

\* C5: a failed refresh leaves the store empty and fails its call with
\* AuthExpired, and a request started after it issues no POST /auth/refresh
\* as long as no login or registration has stored a pair.
C5_NoRefreshAfterFailure ==
  [][\A c \in Calls :
       /\ (calls[c].pc = "refresh" /\ calls'[c].pc = "done") =>
             /\ localStorage' = [access_token |-> 0, refresh_token |-> 0]
             /\ calls'[c].outcome = "AuthExpired"
       /\ (calls[c].pc = "fetch" /\ calls'[c].pc = "refresh" /\ calls[c].afterFail) =>
             ~refreshFailed]_vars

\* C6: between any two tasks the access token and the refresh token are both
\* stored or both absent.
C6_PairInvariant ==
  (localStorage.access_token = 0) <=> (localStorage.refresh_token = 0)

\* a pair stored by a login or registration was replaced by a refresh
C6_Witness ==
  /\ user /\ localStorage.refresh_token # 0
  /\ \E c \in Calls : calls[c].retry
  /\ \E c \in Calls : c # 0 /\ calls[c].pc = "done" /\ calls[c].firstToken = 0
                        /\ calls[c].outcome = "ok"

\* the fetch of lines 82-85 of call c settles in this step
FetchSettles(c) == calls[c].pc = "fetch" /\ calls'[c].pc \in {"refresh", "done"}

\* call c issues POST /auth/refresh in this step
Posts(c) == calls[c].pc = "fetch" /\ calls'[c].pc = "refresh"

\* C11: at most one POST /auth/refresh is pending at any time.
C11_OneRefreshInFlight == Cardinality({c \in Calls : calls[c].pc = "refresh"}) <= 1

\* C12: the store changes only when a login or registration succeeds (a pair
\* is written), a refresh succeeds (a pair is written), the user logs out or a
\* refresh fails (the store is cleared).
C12_CredentialLifecycle ==
  [][localStorage' # localStorage =>
       \/ \E c \in Calls : /\ calls[c].kind \in {"login", "register"}
                           /\ FetchSettles(c) /\ calls'[c].outcome = "ok"
                           /\ localStorage'.access_token # 0
       \/ \E c \in Calls : /\ calls[c].pc = "refresh" /\ calls'[c].pc = "fetch"
                           /\ localStorage'.access_token # 0
       \/ \E c \in Calls : /\ calls[c].pc = "refresh" /\ calls'[c].pc = "done"
                           /\ localStorage'.access_token = 0
       \/ (user /\ ~user' /\ localStorage'.access_token = 0)]_vars

\* C13: a fetch that rejects ends its call at once with that rejection: the
\* call is not retried and no POST /auth/refresh is issued in that step.
C13_TransportFailure ==
  [][\A c \in Calls :
       (FetchSettles(c) /\ calls'[c].resp = "net") =>
          /\ calls'[c].pc = "done"
          /\ calls'[c].outcome = "NetworkError"
          /\ calls'[c].retry = calls[c].retry
          /\ \A d \in Calls : ~Posts(d)]_vars

\* a first attempt that carried a token failed in transport while a refresh
\* token was stored
C13_Witness ==
  \E c \in Calls :
     /\ calls[c].pc = "done" /\ calls[c].resp = "net" /\ calls[c].outcome = "NetworkError"
     /\ ~calls[c].retry /\ calls[c].firstToken # 0
     /\ localStorage.refresh_token # 0

\* C15: POST /auth/refresh is issued only while a refresh token is stored; a
\* 401 that finds none ends the call at once and leaves the store as it is.
C15_NoCredential ==
  [][\A c \in Calls :
       /\ Posts(c) => localStorage.refresh_token # 0
       /\ ( /\ FetchSettles(c) /\ calls'[c].resp = "401" /\ calls[c].token # 0
            /\ localStorage.refresh_token = 0 ) =>
              /\ calls'[c].pc = "done"
              /\ calls'[c].outcome = "AuthExpired"
              /\ calls'[c].posted1 = calls[c].posted1
              /\ localStorage' = localStorage]_vars

\* a first attempt sent with a token got its 401 after the store was cleared
C15_Witness ==
  \E c \in Calls :
     /\ calls[c].pc = "done" /\ calls[c].resp = "401" /\ calls[c].outcome = "AuthExpired"
     /\ calls[c].firstToken # 0 /\ ~calls[c].posted1 /\ ~calls[c].retry

\* C19: a call sends at most two requests to its endpoint and issues at most
\* one POST /auth/refresh: once retried, it neither refreshes nor retries again.
C19_BoundedRetries ==
  [][\A c \in Calls :
       calls[c].retry => /\ ~Posts(c)
                         /\ ~(calls[c].pc = "refresh" /\ calls'[c].pc = "fetch")]_vars

\* C20: a 401 for a request sent without a token ends the call with the
\* server's error, issues no POST /auth/refresh and leaves the store as it is.
C20_NoCredential401 ==
  [][\A c \in Calls :
       (FetchSettles(c) /\ calls'[c].resp = "401" /\ calls[c].token = 0) =>
          /\ calls'[c].pc = "done"
          /\ calls'[c].outcome = "HttpError"
          /\ localStorage' = localStorage
          /\ \A d \in Calls : ~Posts(d)]_vars

\* a request sent without a token got a 401 while a refresh token was stored
C20_Witness ==
  \E c \in Calls :
     /\ calls[c].pc = "done" /\ calls[c].resp = "401" /\ calls[c].outcome = "HttpError"
     /\ calls[c].firstToken = 0
     /\ localStorage.refresh_token # 0

\* a login() or register() call returns or throws in this step
AuthCallEnds(c) ==
  calls[c].kind \in {"login", "register"} /\ calls[c].pc # "done" /\ calls'[c].pc = "done"

\* C25: while nobody is signed in and the store is empty (as handleLogout
\* leaves it), the only step that writes the store is a successful login or
\* registration, the step that sets the user.
C25_LogoutFinal ==
  [][(~loading /\ ~user /\ localStorage = RemoveTokens(localStorage)
        /\ localStorage' # localStorage) => user']_vars

\* C26: when a refresh started from an expired credential settles while the
\* store already holds a newer pair, the store keeps that pair.
C26_NoLostCredential ==
  [][\A c \in Calls :
       (calls[c].pc = "refresh" /\ calls'[c].pc # "refresh"
          /\ localStorage.access_token # 0
          /\ localStorage.access_token # calls[c].token) =>
             localStorage' = localStorage]_vars

\* C27: the step in which a login() or register() call fails leaves the store
\* as it was.
C27_FailedLoginKeepsStore ==
  [][\A c \in Calls :
       (AuthCallEnds(c) /\ calls'[c].outcome # "ok") => localStorage' = localStorage]_vars

\* C28: the step that signs a user in through login() or register() is the
\* successful return of such a call and leaves the pair of its response in the
\* store; a login() or register() that fails leaves the user as it was.
C28_LoginOrdering ==
  [][/\ (~loading /\ ~user /\ user') =>
           \E c \in Calls :
              /\ AuthCallEnds(c) /\ calls'[c].outcome = "ok"
              /\ localStorage' = [access_token |-> nextTok, refresh_token |-> nextTok]
     /\ \A c \in Calls :
           (AuthCallEnds(c) /\ calls'[c].outcome # "ok") => user' = user]_vars

\* a user is signed in without any startup profile call: through login/register
C28_Witness == user /\ calls[0].pc = "idle" /\ localStorage.access_token # 0

\* C29: the loading flag eventually becomes false; while it is set and no
\* access token is stored, no call is started and the user stays unset; while it
\* is set, the user is set only by the successful return of the profile call.
C29_StartupCheck ==
  /\ <>~loading
  /\ [][/\ (loading /\ localStorage.access_token = 0) => (calls' = calls /\ user' = user)
        /\ (loading /\ ~user /\ user') =>
              (calls[0].pc = "fetch" /\ calls'[0].pc = "done" /\ calls'[0].outcome = "ok")]_vars

\* ======================================================= quote poller claims

\* the loadQuotes() call b completes in this step
Completes(b) == batches[b].pc = "pending" /\ batches'[b].pc = "done"

\* the symbols call b fetched
Snapshot(b) == DOMAIN batches[b].res

\* C7: after a poll tick of the running poller in which some fetches succeed
\* and some fail, the published map holds the fresh quote of every symbol that
\* succeeded and still holds the last known quote of every symbol that failed.
C7_QuoteMerge ==
  [][\A b \in Ticks :
       (Completes(b) /\ mounted /\ ~batches[b].stopped /\ last'.failed # Snapshot(b)) =>
          \A s \in Snapshot(b) :
             IF s \in last'.failed
               THEN s \in DOMAIN quotes => (s \in DOMAIN quotes' /\ quotes'[s] = quotes[s])
               ELSE s \in DOMAIN quotes' /\ quotes'[s] = b]_vars

\* C8: a batch started before the polling effect's cleanup ran never modifies
\* the published map.
C8_StopDiscards ==
  [][\A b \in Ticks : (Completes(b) /\ batches[b].stopped) => quotes' = quotes]_vars

\* C9: a poll tick in which every fetch fails leaves the published map as it was.
C9_TotalFailureKeepsMap ==
  [][\A b \in Ticks :
       (Completes(b) /\ last'.failed = Snapshot(b)) => quotes' = quotes]_vars

\* C10: the ticks of the running poller publish in the order they started, and
\* no published quote is replaced by one an earlier tick fetched.
C10_PublishOrder ==
  [][\A b \in Ticks :
       (Completes(b) /\ mounted /\ ~batches[b].stopped) =>
          /\ b > last.id
          /\ \A s \in DOMAIN quotes \cap DOMAIN quotes' : quotes'[s] >= quotes[s]]_vars

\* the loadQuotes() call b starts / stops being pending in this step
Begins(b) == batches[b].pc = "idle" /\ batches'[b].pc = "pending"
Settles(b) == batches[b].pc = "pending" /\ batches'[b].pc # "pending"

\* C21: whichever fetches of a loadQuotes() call fail, the call completes
\* without throwing and, in a mounted component, publishes a map that holds the
\* fresh quote of every symbol whose fetch succeeded.
C21_FailuresDropped ==
  [][\A b \in Ticks :
       Settles(b) =>
          /\ batches'[b].pc = "done"
          /\ last'.id = b
          /\ mounted => \A s \in Snapshot(b) \ last'.failed :
                           s \in DOMAIN quotes' /\ quotes'[s] = b]_vars

\* a call with a failed fetch has published the quotes of its other symbols
C21_Witness ==
  /\ last.id # 0 /\ last.failed # {}
  /\ \E s \in DOMAIN quotes : quotes[s] = last.id

\* C23: a loadQuotes() call starts exactly one fetch for every symbol of the
\* `stocks` it was started with, all of them in the step that starts the call,
\* before any of them has settled.
C23_OneFetchPerSymbol ==
  [][\A b \in Ticks :
       Begins(b) =>
          /\ DOMAIN batches'[b].res = stocks'
          /\ \A s \in stocks' : batches'[b].res[s] = -1]_vars

\* a call is pending with the fetches of two symbols started and none settled
C23_Witness ==
  \E b \in Ticks :
     /\ batches[b].pc = "pending"
     /\ Cardinality(DOMAIN batches[b].res) >= 2
     /\ \A s \in DOMAIN batches[b].res : batches[b].res[s] = -1

\* C24: the timer is set only in a mounted component with stocks; a
\* loadQuotes() call starts only in a mounted component and with the timer set
\* after the step (a tick of the running timer, or a start); an unmount with the
\* timer off starts nothing and changes neither the timer nor the map.
C24_PollingLifecycle ==
  [][/\ interval' => (mounted' /\ stocks' # {})
     /\ (\E b \in Ticks : Begins(b)) => (mounted /\ interval')
     /\ (~interval /\ mounted /\ ~mounted') =>
           (~interval' /\ quotes' = quotes /\ \A b \in Ticks : ~Begins(b))]_vars

\* the poller was started, has run a second call, and was stopped by the unmount
C24_Witness == ~mounted /\ ~interval /\ stocks # {} /\ batches[2].pc # "idle"

\* C22: the map a loadQuotes() call publishes is the one it publishes when its
\* fetches settle in the order they were started, whatever order they settle in.
C22_OrderIndependent ==
  merge.op = "setQuotes" =>
     merge.out = ForEachResult(PromiseAll(merge.stocks, merge.ok, InOrder(Len(merge.stocks))),
                               1, <<>>)

\* a symbol occurs twice, both fetches succeed, and the later one settles first
C22_Witness ==
  /\ merge.op = "setQuotes"
  /\ \E i, j \in 1..Len(merge.stocks) :
        /\ i < j /\ merge.stocks[i] = merge.stocks[j] /\ merge.ok[i] /\ merge.ok[j]
        /\ \E k, l \in 1..Len(merge.order) : k < l /\ merge.order[k] = j /\ merge.order[l] = i

\* a request() of a signed-in view has ended in AuthExpired
AuthExpiredSeen ==
  \E c \in Calls : calls[c].pc = "done" /\ calls[c].outcome = "AuthExpired"

\* C18: once a request has ended in AuthExpired while a user is shown, the
\* application eventually shows no user (the login screen).
C18_AuthExpiredLeadsToLogin == (AuthExpiredSeen /\ user) ~> ~user

\* ======================================================= trading modal claims

\* the pending handleTrade() resumes in this step
TradeSettles == modal.pc = "pending" /\ modal'.pc = "idle"

\* C30: a trade request is sent only with a quote loaded and a positive
\* quantity; when it fails no callback is invoked and the error is set; when
\* it succeeds onComplete is invoked and then onClose; loading is false after
\* either.
C30_TradeSubmission ==
  [][/\ modal'.sent # modal.sent => (modal.quote # 0 /\ modal.quantity > 0)
     /\ TradeSettles =>
           /\ ~modal'.loading
           /\ modal'.outcome = "failed" => (modal'.log = modal.log /\ modal'.error # "")
           /\ modal'.outcome = "ok" => modal'.log = modal.log \o <<"onComplete", "onClose">>]_vars

\* one trade has succeeded and the next one has failed
C30_Witness == modal.outcome = "failed" /\ Len(modal.log) = 2 /\ modal.pc = "idle"

\* ===================================================== request builder claims

\* C14: the error thrown for a non-2xx response carries the HTTP status and
\* the server's message.
C14_HttpErrorCarriesStatus ==
  wire.op = "error" =>
     /\ "status" \in DOMAIN wire.out /\ wire.out["status"] = wire.status
     /\ wire.out["message"] = wire.message

\* C16: a request built while an access token is stored carries the bearer
\* header (unless the caller gave an Authorization of its own), the default
\* content type (unless the caller gave one) and every caller header.
C16_BearerSurvivesCallerHeaders ==
  (wire.op = "request" /\ wire.token # 0) =>
     LET caller == OptionHeaders(wire.options) IN
     /\ "headers" \in DOMAIN wire.out
     /\ \A k \in DOMAIN caller :
          k \in DOMAIN wire.out["headers"] /\ wire.out["headers"][k] = caller[k]
     /\ "Authorization" \notin DOMAIN caller =>
          /\ "Authorization" \in DOMAIN wire.out["headers"]
          /\ wire.out["headers"]["Authorization"] = Bearer(wire.token)
     /\ "Content-Type" \notin DOMAIN caller =>
          /\ "Content-Type" \in DOMAIN wire.out["headers"]
          /\ wire.out["headers"]["Content-Type"] = "application/json"

\* C17: POST /auth/refresh carries the stored refresh token in its body and no
\* Authorization header, whatever access token is stored.
C17_RefreshUsesBody ==
  wire.op = "refresh" =>
     /\ wire.out.method = "POST"
     /\ wire.out.body = [refresh_token |-> wire.ls.refresh_token]
     /\ "Authorization" \notin DOMAIN wire.out.headers

\* a refresh was sent while an access token was stored
C17_Witness == wire.op = "refresh" /\ wire.ls.access_token # 0

====
